---- MODULE Spec2Model ----
(***************************************************************************)
(* Media-Finder: the multi-tracker query engine.                           *)
(*                                                                         *)
(*   src/cmds/api_commands.py  query_additional_apis and its nested        *)
(*                             helpers (the driver that is actually run)   *)
(*   src/cmds/processing.py    filter_results, check_media_types (the      *)
(*                             stand-alone versions)                       *)
(*   src/utils/helpers.py      create_table                                *)
(*   src/main.py               perform_search under handle_errors, with    *)
(*                             select_tmdb_result and get_user_choice;     *)
(*                             main, from setup on                         *)
(*   src/utils/validation.py   setup_environment, validate_env_vars        *)
(*   src/utils/create_env.py   create_env_file                             *)
(*                                                                         *)
(* Python strings are TLA+ strings; str.lower, str.strip, str.split and    *)
(* the "in" substring test are computed character by character.            *)
(***************************************************************************)
EXTENDS Integers, Sequences, FiniteSets, TLC

(***************************************************************************)
(* Bounds of the model.                                                    *)
(***************************************************************************)
\* longest free-text query the filter harness enumerates
MaxQueryLen == 3
\* most listings in one payload of the filter harness
MaxListings == 2

(***************************************************************************)
(* Python string primitives.                                               *)
(***************************************************************************)
UpperChars == "ABCDEFGHIJKLMNOPQRSTUVWXYZ"

LowerChars == "abcdefghijklmnopqrstuvwxyz"

\* the place of each upper-case letter in UpperChars
UpperIndex ==
    [c \in {SubSeq(UpperChars, i, i) : i \in 1..Len(UpperChars)} |->
        CHOOSE i \in 1..Len(UpperChars) : SubSeq(UpperChars, i, i) = c]

\* one character of str.lower()
LowerChar(c) ==
    IF c \in DOMAIN UpperIndex
    THEN SubSeq(LowerChars, UpperIndex[c], UpperIndex[c])
    ELSE c

RECURSIVE str_lower(_)
\* str.lower()
str_lower(s) ==
    IF s = "" THEN ""
    ELSE LowerChar(SubSeq(s, 1, 1)) \o str_lower(SubSeq(s, 2, Len(s)))

\* the whitespace str.strip() removes (the model's strings hold only blanks)
IsSpace(c) == c = " "

RECURSIVE str_lstrip(_)
str_lstrip(s) ==
    IF s /= "" /\ IsSpace(SubSeq(s, 1, 1))
    THEN str_lstrip(SubSeq(s, 2, Len(s)))
    ELSE s

RECURSIVE str_rstrip(_)
str_rstrip(s) ==
    IF s /= "" /\ IsSpace(SubSeq(s, Len(s), Len(s)))
    THEN str_rstrip(SubSeq(s, 1, Len(s) - 1))
    ELSE s

\* str.strip()
str_strip(s) == str_rstrip(str_lstrip(s))

\* Python's  sub in s  on strings
str_contains(sub, s) ==
    \E k \in 1..(Len(s) - Len(sub) + 1) : SubSeq(s, k, k + Len(sub) - 1) = sub

RECURSIVE str_split(_, _)
\* s.split(sep) for a one-character separator: always at least one piece
str_split(s, sep) ==
    LET cuts == {k \in 1..Len(s) : SubSeq(s, k, k) = sep}
    IN  IF cuts = {} THEN <<s>>
        ELSE LET k == CHOOSE c \in cuts : \A d \in cuts : c <= d
             IN  <<SubSeq(s, 1, k - 1)>> \o str_split(SubSeq(s, k + 1, Len(s)), sep)

DigitChars == "0123456789"

\* the value of each decimal digit
DigitValue ==
    [c \in {SubSeq(DigitChars, i, i) : i \in 1..Len(DigitChars)} |->
        (CHOOSE i \in 1..Len(DigitChars) : SubSeq(DigitChars, i, i) = c) - 1]

\* U+00B2 SUPERSCRIPT TWO, written "#" here: a character of Unicode
\* category No, a digit for str.isdigit() and none for int()
SuperscriptTwo == "#"

\* str.isdigit(): not empty and digits only, the decimal ones or others
str_isdigit(s) ==
    /\ s /= ""
    /\ \A k \in 1..Len(s) : SubSeq(s, k, k) \in DOMAIN DigitValue \cup {SuperscriptTwo}

\* int(s) raises ValueError: s is not made of decimal digits
int_raises(s) ==
    \/ s = ""
    \/ \E k \in 1..Len(s) : SubSeq(s, k, k) \notin DOMAIN DigitValue

RECURSIVE str_to_int(_)
\* int(s) for a string of decimal digits
str_to_int(s) ==
    IF s = "" THEN 0
    ELSE 10 * str_to_int(SubSeq(s, 1, Len(s) - 1)) + DigitValue[SubSeq(s, Len(s), Len(s))]

\* the elements of a sequence
Range(seq) == {seq[k] : k \in 1..Len(seq)}

\* a Python dict: a function on the keys it holds
EmptyDict == [n \in {} |-> <<>>]

\* d[key] = v
DictSet(d, key, v) == [n \in DOMAIN d \cup {key} |-> IF n = key THEN v ELSE d[n]]

(***************************************************************************)
(* JSON values of a tracker response.                                      *)
(*   a field:   [k |-> "absent" | "null" | "number" | "str", s |-> the     *)
(*              string]                                                    *)
(*   a listing: [has_attributes, name, type]; without 'attributes' both    *)
(*              fields are absent; a listing that is no object has no keys *)
(*   a body:    [kind |-> "null" | "number" | "object", has_data, data]    *)
(***************************************************************************)
Absent == [k |-> "absent", s |-> ""]

Null == [k |-> "null", s |-> ""]

Number == [k |-> "number", s |-> ""]

Str(s) == [k |-> "str", s |-> s]

\* the fields of a listing that is a JSON string, not an object
NoKeys == [k |-> "nokeys", s |-> ""]

StringItem == [has_attributes |-> FALSE, name |-> NoKeys, type |-> NoKeys]

\* isinstance(item, dict)
IsDict(item) == item.name.k /= "nokeys"

NoAttributes == [has_attributes |-> FALSE, name |-> Absent, type |-> Absent]

Listing(name, type) == [has_attributes |-> TRUE, name |-> name, type |-> type]

JsonNull == [kind |-> "null", has_data |-> FALSE, data |-> <<>>]

JsonNumber == [kind |-> "number", has_data |-> FALSE, data |-> <<>>]

JsonNoData == [kind |-> "object", has_data |-> FALSE, data |-> <<>>]

JsonObject(listings) == [kind |-> "object", has_data |-> TRUE, data |-> listings]

\* the value a call returns, or the exception it raises
Returned(v) == [raised |-> "none", value |-> v]

Raised(e) == [raised |-> e, value |-> <<>>]

(***************************************************************************)
(* processing.filter_results                                               *)
(***************************************************************************)
\* item['attributes']['name'].lower(): the exception the lookup raises
api_name_error(item) ==
    IF ~item.has_attributes THEN "KeyError"
    ELSE IF item.name.k = "absent" THEN "KeyError"
    ELSE IF item.name.k = "null" THEN "AttributeError"
    ELSE "none"

\* a variant of processing_terms that forgets strip()
processing_terms_unstripped(query) ==
    LET parts == str_split(query, "^")
    IN  [k \in 1..Len(parts) |-> str_lower(parts[k])]

\* item.get("attributes", {}).get("name", ""): the name, "" when either
\* key is missing
processing_item_name(item) ==
    IF item.has_attributes /\ item.name.k /= "absent" THEN item.name ELSE Str("")

\* item.get("attributes", {}).get("name", "").lower() raises AttributeError:
\* the listing is no dict, or its name is null or a number
processing_name_raises(item) ==
    \/ ~IsDict(item)
    \/ processing_item_name(item).k \in {"null", "number"}

\* terms = [term.strip().lower() for term in search_query.split("^")]
processing_terms(query) ==
    LET parts == str_split(query, "^")
    IN  [k \in 1..Len(parts) |-> str_lower(str_strip(parts[k]))]

\* all(term in name.lower() for term in terms)
processing_matches(item, terms) ==
    \A k \in 1..Len(terms) :
        str_contains(terms[k], str_lower(processing_item_name(item).s))

\* a variant of filter_results that starts at the second listing
processing_filter_skips_first(data, query) ==
    LET terms == processing_terms(query)
        Keep(item) == processing_matches(item, terms)
    IN  IF data.kind /= "object" \/ data.data = <<>> THEN <<>>
        ELSE IF \E k \in 1..Len(data.data) : processing_name_raises(data.data[k])
             THEN <<>>
             ELSE SelectSeq(Tail(data.data), Keep)

\* a variant of filter_results that indexes item["attributes"]["name"]: a
\* missing key raises, and the handler returns the empty list
processing_filter_strict(data, query) ==
    LET terms == processing_terms(query)
        Keep(item) == processing_matches(item, terms)
    IN  IF data.kind /= "object" THEN <<>>
        ELSE IF \E k \in 1..Len(data.data) : api_name_error(data.data[k]) /= "none"
             THEN <<>>
             ELSE SelectSeq(data.data, Keep)

\* filter_results(logger, data, search_query): the list it returns.  Every
\* exception raised inside (data is no dict, a listing is none, a name is
\* null or a number) is caught and the empty list returned.
processing_filter_results(data, query) ==
    LET terms == processing_terms(query)
        Keep(item) == processing_matches(item, terms)
    IN  IF data.kind /= "object" THEN <<>>
        ELSE IF \E k \in 1..Len(data.data) : processing_name_raises(data.data[k])
             THEN <<>>
             ELSE SelectSeq(data.data, Keep)

(***************************************************************************)
(* api_commands.query_additional_apis: the nested filter_results           *)
(***************************************************************************)
\* search_query.split("^"), each term lower-cased at the comparison
api_terms(query) ==
    LET parts == str_split(query, "^")
    IN  [k \in 1..Len(parts) |-> str_lower(parts[k])]

api_matches(item, terms) ==
    \A k \in 1..Len(terms) : str_contains(terms[k], str_lower(item.name.s))

\* filter_results(data, query) of the driver.  split never returns
\* an empty list, so every item's name is looked up: the first item whose
\* lookup fails raises.
api_filter_results(data, query) ==
    LET terms == api_terms(query)
        Keep(item) == api_matches(item, terms)
        bad == {k \in 1..Len(data.data) : api_name_error(data.data[k]) /= "none"}
    IN  IF bad /= {}
        THEN Raised(api_name_error(data.data[CHOOSE k \in bad : \A j \in bad : k <= j]))
        ELSE Returned(SelectSeq(data.data, Keep))

(***************************************************************************)
(* api_commands: MEDIA_TYPES and the nested check_media_types              *)
(***************************************************************************)
\* MEDIA_TYPES of api_commands.py, as written there
MEDIA_TYPES == <<"REMUX", "WEB-DL", "Encode", "Full Disc", "WEBip">>

\* [item['attributes']['type'] for item in data['data']
\*      if 'type' in item['attributes']]
api_site_media_types(data) ==
    LET HasType(item) == item.type.k /= "absent"
        typed == SelectSeq(data.data, HasType)
    IN  IF \E k \in 1..Len(data.data) : ~data.data[k].has_attributes
        THEN Raised("KeyError")
        ELSE Returned([k \in 1..Len(typed) |-> typed[k].type])

\* media_type.lower() in item['attributes']['name'].lower()
\*     or media_type.lower() == t.lower()
\* for one (item, t): "true", "false" or the exception raised
api_pair_outcome(media_type, item, t) ==
    IF api_name_error(item) /= "none" THEN api_name_error(item)
    ELSE IF str_contains(str_lower(media_type), str_lower(item.name.s)) THEN "true"
    ELSE IF t.k = "null" THEN "AttributeError"
    ELSE IF str_lower(media_type) = str_lower(t.s) THEN "true"
    ELSE "false"

\* any(... for item in data['data'] for t in site_media_types): the pairs
\* are visited items outermost, and the first pair that is true or raises
\* ends the scan.  No pair is visited when site_media_types is empty.
api_any_media_type(media_type, items, types) ==
    LET n == Len(items) * Len(types)
        At(p) == api_pair_outcome(media_type,
                                  items[((p - 1) \div Len(types)) + 1],
                                  types[((p - 1) % Len(types)) + 1])
        hits == {p \in 1..n : At(p) /= "false"}
    IN  IF hits = {} THEN "false"
        ELSE At(CHOOSE p \in hits : \A q \in hits : p <= q)

\* missing_media[tracker_name].append(media_type), creating the list first
dict_append(d, key, v) ==
    DictSet(d, key, IF key \in DOMAIN d THEN Append(d[key], v) ELSE <<v>>)

RECURSIVE api_check_loop(_, _, _, _)
\* for media_type in MEDIA_TYPES[k..]: the loop of check_media_types from
\* its k-th turn on, given the media types appended before it; an
\* exception leaves what was appended so far
api_check_loop(k, items, types, appended) ==
    IF k > Len(MEDIA_TYPES) THEN [raised |-> "none", value |-> appended]
    ELSE LET found == api_any_media_type(MEDIA_TYPES[k], items, types)
         IN  IF found = "true"
             THEN api_check_loop(k + 1, items, types, appended)
             ELSE IF found = "false"
             THEN api_check_loop(k + 1, items, types, Append(appended, MEDIA_TYPES[k]))
             ELSE [raised |-> found, value |-> appended]

\* the media types check_media_types appends for a payload, in order, and
\* the exception that ends it ("none" when it returns)
api_missing_media_types(data) ==
    LET types == api_site_media_types(data)
    IN  IF types.raised /= "none"
        THEN [raised |-> types.raised, value |-> <<>>]
        ELSE api_check_loop(1, data.data, types.value, <<>>)

RECURSIVE dict_extend(_, _, _)
\* the appends of lines 106-108, one media type after the other
dict_extend(d, key, values) ==
    IF values = <<>> THEN d
    ELSE dict_extend(dict_append(d, key, Head(values)), key, Tail(values))

\* the media types the driver's check finds on a payload it does not raise on
api_found_media_types(data) ==
    LET types == api_site_media_types(data)
    IN  {MEDIA_TYPES[k] : k \in {j \in 1..Len(MEDIA_TYPES) :
            api_any_media_type(MEDIA_TYPES[j], data.data, types.value) = "true"}}

(***************************************************************************)
(* processing.check_media_types                                            *)
(***************************************************************************)
\* the keys of its MEDIA_TYPES, in the order the dict literal gives them
CATEGORIES == <<"REMUX", "WEB-DL", "Encode", "Full Disc", "WEBRip", "HDTV">>

\* MEDIA_TYPES[category]: the synonyms
SYNONYMS(category) ==
    CASE category = "REMUX" -> {"remux"}
      [] category = "WEB-DL" -> {"web-dl"}
      [] category = "Encode" -> {"encode", "x264 encode", "x265 encode"}
      [] category = "Full Disc" -> {"full disc", "full disk"}
      [] category = "WEBRip" -> {"webrip", "web-rip"}
      [] category = "HDTV" -> {"hdtv"}

\* [item["attributes"]["type"].lower() for item in data.get("data", [])
\*      if "type" in item.get("attributes", {})]
processing_site_media_types(data) ==
    LET HasType(item) == item.has_attributes /\ item.type.k /= "absent"
        typed == SelectSeq(data.data, HasType)
    IN  IF data.kind /= "object" THEN Raised("AttributeError")
        ELSE IF \E k \in 1..Len(data.data) : ~IsDict(data.data[k])
        THEN Raised("AttributeError")
        ELSE IF \E k \in 1..Len(typed) : typed[k].type.k \in {"null", "number"}
        THEN Raised("AttributeError")
        ELSE Returned([k \in 1..Len(typed) |-> str_lower(typed[k].type.s)])

\* site_type in synonyms or any(synonym in site_type for synonym in synonyms)
processing_type_matches(site_type, category) ==
    \/ site_type \in SYNONYMS(category)
    \/ \E synonym \in SYNONYMS(category) : str_contains(synonym, site_type)

\* found_categories
processing_found_categories(site_media_types) ==
    {CATEGORIES[k] : k \in {j \in 1..Len(CATEGORIES) :
        \E t \in 1..Len(site_media_types) :
            processing_type_matches(site_media_types[t], CATEGORIES[j])}}

RECURSIVE processing_missing_loop(_, _, _, _)
\* for category in MEDIA_TYPES.keys(): setdefault(tracker_name, []).append
processing_missing_loop(k, found, tracker_name, missing) ==
    IF k > Len(CATEGORIES) THEN missing
    ELSE processing_missing_loop(k + 1, found, tracker_name,
            IF CATEGORIES[k] \in found THEN missing
            ELSE dict_append(missing, tracker_name, CATEGORIES[k]))

\* a variant of check_media_types that takes the site for one without type
\* tokens when the tokens cannot be read
processing_check_without_types(data, tracker_name, missing) ==
    LET types == processing_site_media_types(data)
    IN  processing_missing_loop(1,
            IF types.raised /= "none" THEN {}
            ELSE processing_found_categories(types.value),
            tracker_name, missing)

\* check_media_types(logger, data, tracker_name, missing): the mapping
\* it returns; every exception is caught and the mapping returned as it is
processing_check_media_types(data, tracker_name, missing) ==
    LET types == processing_site_media_types(data)
    IN  IF types.raised /= "none" THEN missing
        ELSE processing_missing_loop(1, processing_found_categories(types.value),
                                     tracker_name, missing)

(***************************************************************************)
(* Python calls with too few positional arguments                          *)
(***************************************************************************)
\* helpers.create_table(logger, title, columns, rows, ...): the parameters
\* without a default
CREATE_TABLE_REQUIRED == 4

\* the nested export_json(logger, data, tracker_code, tracker_name)
EXPORT_JSON_REQUIRED == 4

\* a call that passes `given` positional arguments to a function with
\* `required` parameters without defaults: the exception it raises
python_call(required, given) == IF given < required THEN "TypeError" ELSE "none"

\* create_table("Failed Sites", failed_columns, failed_rows) and
\* create_table("Missing Media Types", missing_columns, missing_rows)
create_table_call == python_call(CREATE_TABLE_REQUIRED, 3)

\* export_json(data, tracker_code, tracker_name)
export_json_call == python_call(EXPORT_JSON_REQUIRED, 3)

(***************************************************************************)
(* The run of query_additional_apis: inputs                                *)
(***************************************************************************)
\* trackers in one run
NumTrackers == 3

\* the first entries of validation.TRACKER_CONFIG
TRACKER_CONFIG ==
    << [key |-> "ATH", name |-> "Aither"],
       [key |-> "BHD", name |-> "BeyondHD"],
       [key |-> "BLU", name |-> "Blutopia"],
       [key |-> "FNP", name |-> "FearNoPeer"],
       [key |-> "LDU", name |-> "TheLDU"] >>

\* the tracker dictionaries the driver is handed: each site with or without
\* its API key and its URL ("" is a missing or empty value)
TrackerChoices(k) ==
    { [name |-> TRACKER_CONFIG[k].name, code |-> TRACKER_CONFIG[k].key,
       api_key |-> key, url |-> url] :
        key \in {"", "key-" \o TRACKER_CONFIG[k].key},
        url \in {"", "https://" \o TRACKER_CONFIG[k].key} }

TrackerLists ==
    {ts \in [1..NumTrackers -> UNION {TrackerChoices(k) : k \in 1..NumTrackers}] :
        \A k \in 1..NumTrackers : ts[k] \in TrackerChoices(k)}

\* search_query: None, "" or a query; the last has blanks around its term
NoQuery == Null

DriverQueries == {NoQuery, Str(""), Str("a"), Str(" a ")}

\* if search_query:
Truthy(q) == q.k = "str" /\ q.s /= ""

\* the 'data' lists a tracker may answer with
DriverPayloads ==
    { <<Listing(Str("a.REMUX"), Absent)>>,
      <<Listing(Str("A"), Str("Remux")), Listing(Str("b"), Str("WEB-DL"))>>,
      <<Listing(Str("REMUX WEB-DL Encode Full Disc WEBip"), Str("HDTV"))>>,
      <<NoAttributes>>,
      <<Listing(Absent, Str("Encode"))>>,
      <<Listing(Absent, Absent)>>,
      <<Listing(Str("b"), Str("Full Discography"))>> }

\* what requests.get, raise_for_status and response.json() give for one
\* tracker: a transport failure, a body that is no JSON, or the parsed body
Responses ==
    { [status |-> st, body |-> JsonNull] : st \in {"timeout", "http500", "bad_json"} }
    \cup { [status |-> "ok", body |-> b] :
            b \in {JsonNull, JsonNumber, JsonNoData, JsonObject(<<>>)}
                  \cup {JsonObject(p) : p \in DriverPayloads} }

\* the bodies with listings a tracker may answer with
ListingBodies == {JsonObject(p) : p \in DriverPayloads}

\* the queries the filter runs with
QueryStrings == {q.s : q \in {d \in DriverQueries : Truthy(d)}}

\* api_filter_results on the inputs of the run, computed once
FILTER_MEMO ==
    [b \in ListingBodies, q \in QueryStrings |-> api_filter_results(b, q)]

\* the data objects check_media_types may be handed
CheckedBodies ==
    ListingBodies \cup
    {JsonObject(FILTER_MEMO[b, q].value) : b \in ListingBodies, q \in QueryStrings}

\* api_missing_media_types on the inputs of the run, computed once
CHECK_MEMO == [d \in CheckedBodies |-> api_missing_media_types(d)]

\* check_media_types(data, tracker_name) of the driver: the exception it
\* raises ("none" when it returns) and missing as it leaves it
api_check_media_types(data, tracker_name, missing) ==
    [raised |-> CHECK_MEMO[data].raised,
     value |-> dict_extend(missing, tracker_name, CHECK_MEMO[data].value)]

(***************************************************************************)
(* State                                                                   *)
(***************************************************************************)
VARIABLES
    trackers,          \* the trackers argument
    search_query,      \* the search_query argument
    output_json,       \* the output_json argument
    pc,                \* where the run stands
    idx,               \* the tracker the for loop is at
    failed_sites,      \* dict name -> reason
    successful_sites,  \* list of names
    collected_data,    \* list of (data, tracker_code, tracker_name)
    missing_media,     \* dict name -> list of media types
    headers,           \* the Authorization header of the shared dict
    events,            \* requests sent and sleeps taken, in order
    received,          \* dict name -> what the tracker answered with
    files,             \* dict file name -> the data written to it
    exception,         \* the exception that left the function
    no_success,        \* "No successful queries." was printed
    h_fn,              \* harness: the function under test
    h_data,            \* harness: its data argument
    h_query,           \* harness: its search_query argument
    h_stage,           \* harness: calls made so far
    h_ret,             \* harness: what the first call returned
    h_ret2,            \* harness: what the second call returned
    args,              \* main: the parsed command line
    m_pc,              \* main: where perform_search stands
    m_results,         \* main: the results of the TMDb search by name
    m_selected,        \* main: the result select_tmdb_result returned
    m_answers,         \* main: what was typed at the prompt, in order
    m_error,           \* main: the exception that left perform_search
    m_message,         \* main: the error message handle_errors printed
    h_missing,         \* harness: the missing_media mapping passed in
    env,               \* setup: the environment variables, as os.getenv reads them
    env_file,          \* setup: what config/.env holds
    overwrite          \* setup: args.overwrite

driver_vars == <<trackers, search_query, output_json, pc, idx, failed_sites,
                 successful_sites, collected_data, missing_media, headers,
                 events, received, files, exception, no_success>>

harness_vars == <<h_fn, h_data, h_query, h_stage, h_ret, h_ret2, h_missing>>

main_vars == <<args, m_pc, m_results, m_selected, m_answers, m_error, m_message>>

setup_vars == <<env, env_file, overwrite>>

vars == <<driver_vars, harness_vars, main_vars, setup_vars>>

\* the harness at rest, while the driver runs
HarnessIdle ==
    /\ h_fn = "none"
    /\ h_data = JsonNull
    /\ h_query = ""
    /\ h_stage = "idle"
    /\ h_ret = Returned(<<>>)
    /\ h_ret2 = Returned(<<>>)
    /\ h_missing = EmptyDict

\* the command line of a run in which main.py takes no part
NoArgs == [movies |-> FALSE, series |-> FALSE, id |-> Null, name |-> Null]

\* no environment variables at all
NoEnvironment == [TMDB_API_KEY |-> Null, TMDB_URL |-> Null, trackers |-> <<>>]

\* the environment setup at rest
SetupIdle ==
    /\ env = NoEnvironment
    /\ env_file = "user"
    /\ overwrite = FALSE

\* main.py at rest
MainIdle ==
    /\ args = NoArgs
    /\ m_pc = "idle"
    /\ m_results = <<>>
    /\ m_selected = "none"
    /\ m_answers = <<>>
    /\ m_error = "none"
    /\ m_message = ""

\* lines 59-64: the locals of query_additional_apis
DriverLocals ==
    /\ pc = "loop"
    /\ idx = 1
    /\ failed_sites = EmptyDict
    /\ successful_sites = <<>>
    /\ collected_data = <<>>
    /\ missing_media = EmptyDict
    /\ headers = ""
    /\ events = <<>>
    /\ received = EmptyDict
    /\ files = EmptyDict
    /\ exception = "none"
    /\ no_success = FALSE

Init ==
    /\ trackers \in TrackerLists
    /\ search_query \in DriverQueries
    /\ output_json \in BOOLEAN
    /\ DriverLocals
    /\ HarnessIdle
    /\ MainIdle
    /\ SetupIdle

(***************************************************************************)
(* The for loop over the trackers (lines 127-182): one action per way a    *)
(* turn of the loop can go, each the whole turn                            *)
(***************************************************************************)
\* for tracker in trackers: the loop has a tracker left
InLoop == pc = "loop" /\ idx <= Len(trackers)

\* a variant of the loop that goes through the list from its end
cur_reversed == trackers[Len(trackers) + 1 - idx]

\* tracker: the element of trackers the loop is at
cur == trackers[idx]

\* requests.get(url, headers=headers, ...) put on the wire
RequestEvent(t, auth) ==
    [ev |-> "request", tracker |-> t.name, url |-> t.url, authorization |-> auth]

\* requests.get refusing a URL without a scheme before anything is sent
InvalidUrlEvent(t, auth) ==
    [ev |-> "invalid_url", tracker |-> t.name, url |-> t.url, authorization |-> auth]

\* time.sleep(1) at the end of a turn
SleepEvent(t) ==
    [ev |-> "sleep", tracker |-> t.name, url |-> "", authorization |-> ""]

\* headers['Authorization'] = f"Bearer {api_key}"
Bearer(t) == "Bearer " \o t.api_key

\* the function is left by an exception nothing catches
Escapes(e) ==
    /\ pc' = "raised"
    /\ exception' = e
    /\ UNCHANGED <<idx, no_success, files>>

\* the turn ends and the loop goes on
NextTracker ==
    /\ idx' = idx + 1
    /\ UNCHANGED <<pc, exception, no_success, files>>

Fixed == UNCHANGED <<trackers, search_query, output_json, harness_vars, main_vars, setup_vars>>

\* data['data'] as check_media_types and the display see it: filtered when
\* a query is set (lines 155-163), else as received
ProcessedData(body) ==
    IF Truthy(search_query) THEN FILTER_MEMO[body, search_query.s]
    ELSE Returned(body.data)

\* if data and 'data' in data and data['data']
HasListings(body) == body.kind = "object" /\ body.has_data /\ body.data /= <<>>

\* the data object after line 163: collected_data holds this same object
DataAfterFilter(body) == [body EXCEPT !.data = ProcessedData(body).value]

\* lines 133-138: no API key
TrackerMissingKey ==
    /\ InLoop
    /\ cur.api_key = ""
    /\ failed_sites' = DictSet(failed_sites, cur.name, "Missing API key")
    /\ NextTracker
    /\ UNCHANGED <<successful_sites, collected_data, missing_media, headers,
                   events, received>>
    /\ Fixed

\* lines 140-146, 178-182: an API key but no URL; requests.get raises
\* MissingSchema, a RequestException, and the turn ends with the sleep
TrackerInvalidUrl ==
    /\ InLoop
    /\ cur.api_key /= ""
    /\ cur.url = ""
    /\ headers' = Bearer(cur)
    /\ events' = events \o <<InvalidUrlEvent(cur, headers'), SleepEvent(cur)>>
    /\ NextTracker
    /\ UNCHANGED <<failed_sites, successful_sites, collected_data, missing_media,
                   received>>
    /\ Fixed

\* a variant of line 140 that sets the header only while it is unset
SendsFirstToken(resp) ==
    /\ InLoop
    /\ cur.api_key /= ""
    /\ cur.url /= ""
    /\ resp \in Responses
    /\ headers' = IF headers = "" THEN Bearer(cur) ELSE headers

\* a request goes out with the shared headers
Sends(resp) ==
    /\ InLoop
    /\ cur.api_key /= ""
    /\ cur.url /= ""
    /\ resp \in Responses
    /\ headers' = Bearer(cur)

\* a variant of the except branch that sends the request once more
TrackerRequestRetried ==
    \E resp \in Responses :
        /\ Sends(resp)
        /\ resp.status \in {"timeout", "http500"}
        /\ events' = events \o <<RequestEvent(cur, headers'), RequestEvent(cur, headers'),
                                 SleepEvent(cur)>>
        /\ received' = DictSet(received, cur.name, resp)
        /\ NextTracker
        /\ UNCHANGED <<failed_sites, successful_sites, collected_data, missing_media>>
        /\ Fixed

\* lines 145-146, 178-182: timeout, connection error or raise_for_status
TrackerRequestFailed ==
    \E resp \in Responses :
        /\ Sends(resp)
        /\ resp.status \in {"timeout", "http500"}
        /\ events' = events \o <<RequestEvent(cur, headers'), SleepEvent(cur)>>
        /\ received' = DictSet(received, cur.name, resp)
        /\ NextTracker
        /\ UNCHANGED <<failed_sites, successful_sites, collected_data, missing_media>>
        /\ Fixed

\* lines 79-87, 147-150: response.json() raises JSONDecodeError
TrackerInvalidJson ==
    \E resp \in Responses :
        /\ Sends(resp)
        /\ resp.status = "bad_json"
        /\ events' = Append(events, RequestEvent(cur, headers'))
        /\ failed_sites' = DictSet(failed_sites, cur.name, "Invalid JSON response")
        /\ received' = DictSet(received, cur.name, resp)
        /\ NextTracker
        /\ UNCHANGED <<successful_sites, collected_data, missing_media>>
        /\ Fixed

\* lines 147-150: the body is the JSON null, data is None
TrackerNullBody ==
    \E resp \in Responses :
        /\ Sends(resp)
        /\ resp.status = "ok"
        /\ resp.body.kind = "null"
        /\ events' = Append(events, RequestEvent(cur, headers'))
        /\ received' = DictSet(received, cur.name, resp)
        /\ NextTracker
        /\ UNCHANGED <<failed_sites, successful_sites, collected_data, missing_media>>
        /\ Fixed

\* lines 152-154: the body is a number;  'data' in data  raises TypeError
TrackerBodyNotObject ==
    \E resp \in Responses :
        /\ Sends(resp)
        /\ resp.status = "ok"
        /\ resp.body.kind = "number"
        /\ events' = Append(events, RequestEvent(cur, headers'))
        /\ received' = DictSet(received, cur.name, resp)
        /\ collected_data' = Append(collected_data, <<resp.body, cur.code, cur.name>>)
        /\ Escapes("TypeError")
        /\ UNCHANGED <<failed_sites, successful_sites, missing_media>>
        /\ Fixed

\* a variant that runs check_media_types before the test of line 154, so
\* that a tracker without listings gets every media type listed as missing
TrackerNoDataChecked ==
    \E resp \in Responses :
        /\ Sends(resp)
        /\ resp.status = "ok"
        /\ resp.body.kind = "object"
        /\ ~HasListings(resp.body)
        /\ events' = events \o <<RequestEvent(cur, headers'), SleepEvent(cur)>>
        /\ received' = DictSet(received, cur.name, resp)
        /\ collected_data' = Append(collected_data, <<resp.body, cur.code, cur.name>>)
        /\ failed_sites' = DictSet(failed_sites, cur.name, "No matching results")
        /\ missing_media' = dict_extend(missing_media, cur.name, MEDIA_TYPES)
        /\ NextTracker
        /\ UNCHANGED successful_sites
        /\ Fixed

\* lines 152-154, 172-176, 182: an object without listings
TrackerNoData ==
    \E resp \in Responses :
        /\ Sends(resp)
        /\ resp.status = "ok"
        /\ resp.body.kind = "object"
        /\ ~HasListings(resp.body)
        /\ events' = events \o <<RequestEvent(cur, headers'), SleepEvent(cur)>>
        /\ received' = DictSet(received, cur.name, resp)
        /\ collected_data' = Append(collected_data, <<resp.body, cur.code, cur.name>>)
        /\ failed_sites' = DictSet(failed_sites, cur.name, "No matching results")
        /\ NextTracker
        /\ UNCHANGED <<successful_sites, missing_media>>
        /\ Fixed

\* lines 155-157: the nested filter_results raises (KeyError, AttributeError)
TrackerFilterRaises ==
    \E resp \in Responses :
        /\ Sends(resp)
        /\ resp.status = "ok"
        /\ HasListings(resp.body)
        /\ ProcessedData(resp.body).raised /= "none"
        /\ events' = Append(events, RequestEvent(cur, headers'))
        /\ received' = DictSet(received, cur.name, resp)
        /\ collected_data' = Append(collected_data, <<resp.body, cur.code, cur.name>>)
        /\ Escapes(ProcessedData(resp.body).raised)
        /\ UNCHANGED <<failed_sites, successful_sites, missing_media>>
        /\ Fixed

\* a variant of lines 158-162 without the continue: the turn goes on to
\* the check of the emptied list and counts the tracker as successful
TrackerFilteredEmptyFallsThrough ==
    \E resp \in Responses :
        /\ Sends(resp)
        /\ resp.status = "ok"
        /\ HasListings(resp.body)
        /\ ProcessedData(resp.body) = Returned(<<>>)
        /\ events' = events \o <<RequestEvent(cur, headers'), SleepEvent(cur)>>
        /\ received' = DictSet(received, cur.name, resp)
        /\ collected_data' = Append(collected_data,
                <<DataAfterFilter(resp.body), cur.code, cur.name>>)
        /\ failed_sites' = DictSet(failed_sites, cur.name,
                "No results matching query '" \o search_query.s \o "'")
        /\ successful_sites' = Append(successful_sites, cur.name)
        /\ missing_media' = dict_extend(missing_media, cur.name, MEDIA_TYPES)
        /\ NextTracker
        /\ Fixed

\* lines 155-162: the query leaves no listing
TrackerFilteredEmpty ==
    \E resp \in Responses :
        /\ Sends(resp)
        /\ resp.status = "ok"
        /\ HasListings(resp.body)
        /\ ProcessedData(resp.body) = Returned(<<>>)
        /\ events' = Append(events, RequestEvent(cur, headers'))
        /\ received' = DictSet(received, cur.name, resp)
        /\ collected_data' = Append(collected_data, <<resp.body, cur.code, cur.name>>)
        /\ failed_sites' = DictSet(failed_sites, cur.name,
                "No results matching query '" \o search_query.s \o "'")
        /\ NextTracker
        /\ UNCHANGED <<successful_sites, missing_media>>
        /\ Fixed

\* line 166: check_media_types raises (KeyError, AttributeError)
TrackerCheckRaises ==
    \E resp \in Responses :
        /\ Sends(resp)
        /\ resp.status = "ok"
        /\ HasListings(resp.body)
        /\ ProcessedData(resp.body).raised = "none"
        /\ ProcessedData(resp.body).value /= <<>>
        /\ LET data == DataAfterFilter(resp.body)
               chk == api_check_media_types(data, cur.name, missing_media)
           IN  /\ chk.raised /= "none"
               /\ missing_media' = chk.value
               /\ collected_data' = Append(collected_data, <<data, cur.code, cur.name>>)
               /\ Escapes(chk.raised)
        /\ events' = Append(events, RequestEvent(cur, headers'))
        /\ received' = DictSet(received, cur.name, resp)
        /\ UNCHANGED <<failed_sites, successful_sites>>
        /\ Fixed

\* lines 152-171, 182: listings found (and left by the query)
TrackerSuccess ==
    \E resp \in Responses :
        /\ Sends(resp)
        /\ resp.status = "ok"
        /\ HasListings(resp.body)
        /\ ProcessedData(resp.body).raised = "none"
        /\ ProcessedData(resp.body).value /= <<>>
        /\ LET data == DataAfterFilter(resp.body)
               chk == api_check_media_types(data, cur.name, missing_media)
           IN  /\ chk.raised = "none"
               /\ missing_media' = chk.value
               /\ collected_data' = Append(collected_data, <<data, cur.code, cur.name>>)
        /\ successful_sites' = Append(successful_sites, cur.name)
        /\ events' = events \o <<RequestEvent(cur, headers'), SleepEvent(cur)>>
        /\ received' = DictSet(received, cur.name, resp)
        /\ NextTracker
        /\ UNCHANGED failed_sites
        /\ Fixed

(***************************************************************************)
(* After the loop (lines 184-205)                                          *)
(***************************************************************************)
TMDB_ID == "603"

\* f"{tracker_code}_TMDb_{tmdb_id}.json"
ExportFileName(tracker_code) == tracker_code \o "_TMDb_" \o TMDB_ID \o ".json"

RECURSIVE WriteFiles(_, _)
\* what the export loop would write were its call well-formed
WriteFiles(entries, written) ==
    IF entries = <<>> THEN written
    ELSE WriteFiles(Tail(entries),
                    DictSet(written, ExportFileName(Head(entries)[2]), Head(entries)[1]))

LoopLocals == <<failed_sites, successful_sites, collected_data, missing_media,
                headers, events, received>>

\* lines 184-187: the first export_json call of the loop lacks an argument
ExportJson ==
    /\ pc = "loop"
    /\ idx > Len(trackers)
    /\ IF output_json /\ collected_data /= <<>> /\ export_json_call /= "none"
       THEN /\ pc' = "raised"
            /\ exception' = export_json_call
            /\ UNCHANGED files
       ELSE /\ pc' = "failed_table"
            /\ files' = IF output_json THEN WriteFiles(collected_data, files) ELSE files
            /\ UNCHANGED exception
    /\ UNCHANGED <<idx, no_success>>
    /\ UNCHANGED LoopLocals
    /\ Fixed

\* lines 189-194
FailedTable ==
    /\ pc = "failed_table"
    /\ IF failed_sites /= EmptyDict /\ create_table_call /= "none"
       THEN pc' = "raised" /\ exception' = create_table_call
       ELSE pc' = "missing_table" /\ UNCHANGED exception
    /\ UNCHANGED <<idx, no_success, files>>
    /\ UNCHANGED LoopLocals
    /\ Fixed

\* lines 196-201
MissingTable ==
    /\ pc = "missing_table"
    /\ IF missing_media /= EmptyDict /\ ~Truthy(search_query) /\ create_table_call /= "none"
       THEN pc' = "raised" /\ exception' = create_table_call
       ELSE pc' = "final" /\ UNCHANGED exception
    /\ UNCHANGED <<idx, no_success, files>>
    /\ UNCHANGED LoopLocals
    /\ Fixed

\* lines 203-205
FinalMessage ==
    /\ pc = "final"
    /\ no_success' = (successful_sites = <<>>)
    /\ pc' = "done"
    /\ UNCHANGED <<idx, exception, files>>
    /\ UNCHANGED LoopLocals
    /\ Fixed

Next ==
    \/ TrackerMissingKey
    \/ TrackerInvalidUrl
    \/ TrackerRequestFailed
    \/ TrackerInvalidJson
    \/ TrackerNullBody
    \/ TrackerBodyNotObject
    \/ TrackerNoData
    \/ TrackerFilterRaises
    \/ TrackerFilteredEmpty
    \/ TrackerCheckRaises
    \/ TrackerSuccess
    \/ ExportJson
    \/ FailedTable
    \/ MissingTable
    \/ FinalMessage

Spec == Init /\ [][Next]_vars

(***************************************************************************)
(* The two filter_results called on their own: the inputs are drawn, the   *)
(* function is applied, then applied again to what it returned             *)
(***************************************************************************)
\* the characters of the queries: a lower- and an upper-case letter, a
\* blank and the separator
QueryAlphabet == {"a", "B", " ", "^"}

RECURSIVE StringsUpTo(_, _)
\* the strings over an alphabet up to a length
StringsUpTo(alphabet, n) ==
    IF n = 0 THEN {""}
    ELSE LET shorter == StringsUpTo(alphabet, n - 1)
         IN  shorter \cup {s \o c : s \in shorter, c \in alphabet}

FilterQueries == StringsUpTo(QueryAlphabet, MaxQueryLen)

\* listings with a name, without 'name', without 'attributes', and with a
\* null name
FilterListings ==
    { Listing(Str("A"), Absent), Listing(Str("ab"), Absent),
      Listing(Str("b a"), Absent), Listing(Absent, Absent), NoAttributes,
      Listing(Null, Absent) }

RECURSIVE SeqsUpTo(_, _)
\* the sequences over a set up to a length
SeqsUpTo(S, n) ==
    IF n = 0 THEN {<<>>}
    ELSE LET shorter == SeqsUpTo(S, n - 1)
         IN  shorter \cup {Append(q, x) : q \in shorter, x \in S}

FilterBodies ==
    {JsonNull, JsonNumber, JsonNoData}
    \cup {JsonObject(l) : l \in SeqsUpTo(FilterListings, MaxListings)}

\* the driver at rest, while a function is called on its own
DriverIdle ==
    /\ trackers = <<>>
    /\ search_query = NoQuery
    /\ output_json = FALSE
    /\ pc = "idle"
    /\ idx = 1
    /\ failed_sites = EmptyDict
    /\ successful_sites = <<>>
    /\ collected_data = <<>>
    /\ missing_media = EmptyDict
    /\ headers = ""
    /\ events = <<>>
    /\ received = EmptyDict
    /\ files = EmptyDict
    /\ exception = "none"
    /\ no_success = FALSE

InitFilter ==
    /\ DriverIdle
    /\ MainIdle
    /\ SetupIdle
    /\ h_fn = "none"
    /\ h_data \in FilterBodies
    /\ h_query \in FilterQueries
    /\ h_stage = "input"
    /\ h_ret = Returned(<<>>)
    /\ h_ret2 = Returned(<<>>)
    /\ h_missing = EmptyDict

\* processing.filter_results(logger, data, search_query)
CallProcessingFilter ==
    /\ h_stage = "input"
    /\ h_fn' = "processing.filter_results"
    /\ h_ret' = Returned(processing_filter_results(h_data, h_query))
    /\ h_stage' = "once"
    /\ UNCHANGED <<h_data, h_query, h_ret2, h_missing, driver_vars,
                   main_vars, setup_vars>>

\* processing.filter_results on {"data": <what it returned>}
CallProcessingFilterAgain ==
    /\ h_stage = "once"
    /\ h_fn = "processing.filter_results"
    /\ h_ret2' = Returned(processing_filter_results(JsonObject(h_ret.value), h_query))
    /\ h_stage' = "twice"
    /\ UNCHANGED <<h_fn, h_data, h_query, h_ret, h_missing, driver_vars,
                   main_vars, setup_vars>>

\* the driver's filter_results(data, search_query); it is only called on an
\* object with a 'data' list (line 154)
CallApiFilter ==
    /\ h_stage = "input"
    /\ h_data.kind = "object"
    /\ h_data.has_data
    /\ h_fn' = "api_commands.filter_results"
    /\ h_ret' = api_filter_results(h_data, h_query)
    /\ h_stage' = "once"
    /\ UNCHANGED <<h_data, h_query, h_ret2, h_missing, driver_vars,
                   main_vars, setup_vars>>

\* the driver's filter_results on {"data": <what it returned>}
CallApiFilterAgain ==
    /\ h_stage = "once"
    /\ h_fn = "api_commands.filter_results"
    /\ h_ret.raised = "none"
    /\ h_ret2' = api_filter_results(JsonObject(h_ret.value), h_query)
    /\ h_stage' = "twice"
    /\ UNCHANGED <<h_fn, h_data, h_query, h_ret, h_missing, driver_vars,
                   main_vars, setup_vars>>

NextFilter ==
    \/ CallProcessingFilter
    \/ CallProcessingFilterAgain
    \/ CallApiFilter
    \/ CallApiFilterAgain

SpecFilter == InitFilter /\ [][NextFilter]_vars

\* the listings processing.check_media_types is called on: type tokens that
\* are, contain or miss a synonym, null and number fields, no 'type', no
\* 'attributes', and a listing that is a string
CheckListings ==
    { Listing(Str("a"), Str("Full Discography")), Listing(Str("b"), Str("x265 Encode")),
      Listing(Str("c"), Str("DVD")), Listing(Null, Str("Remux")),
      Listing(Str("d"), Null), Listing(Number, Number), Listing(Str("e"), Absent),
      NoAttributes, StringItem }

CheckBodies ==
    {JsonNull, JsonNumber, JsonNoData}
    \cup {JsonObject(l) : l \in SeqsUpTo(CheckListings, MaxListings)}

\* the tracker_name argument of the calls
HarnessTracker == "Aither"

\* the missing_media mappings passed in: empty, with an entry of another
\* tracker, with an entry of this one
CheckMappings ==
    { EmptyDict, DictSet(EmptyDict, "Blutopia", <<"HDTV">>),
      DictSet(EmptyDict, HarnessTracker, <<"REMUX">>) }

InitCheck ==
    /\ DriverIdle
    /\ MainIdle
    /\ SetupIdle
    /\ h_fn = "none"
    /\ h_data \in CheckBodies
    /\ h_query \in {"", "a"}
    /\ h_stage = "input"
    /\ h_ret = Returned(<<>>)
    /\ h_ret2 = Returned(<<>>)
    /\ h_missing \in CheckMappings

\* processing.check_media_types(logger, data, tracker_name, missing_media)
CallProcessingCheck ==
    /\ h_stage = "input"
    /\ h_fn' = "processing.check_media_types"
    /\ h_ret' = Returned(processing_check_media_types(h_data, HarnessTracker, h_missing))
    /\ h_stage' = "once"
    /\ UNCHANGED <<h_data, h_query, h_ret2, h_missing, driver_vars,
                   main_vars, setup_vars>>

NextCheck ==
    \/ CallProcessingFilter
    \/ CallProcessingCheck

SpecCheck == InitCheck /\ [][NextCheck]_vars

\* the run of the driver and the calls of the filters, side by side
InitAll == Init \/ InitFilter

NextAll == Next \/ NextFilter

SpecAll == InitAll /\ [][NextAll]_vars

(***************************************************************************)
(* main.py: perform_search under the handle_errors wrapper, with           *)
(* processing.select_tmdb_result and get_user_choice                       *)
(***************************************************************************)
\* most answers typed at one prompt
MaxAnswers == 2

\* trackers handed to perform_search
MainTrackers == 1

\* get_user_choice: what one pass of its loop does with the line typed
get_user_choice(answer, num_results) ==
    LET choice == str_lower(str_strip(answer))
    IN  IF choice = "none" THEN [kind |-> "none", index |-> 0]
        ELSE IF str_isdigit(choice) /\ int_raises(choice)
        THEN [kind |-> "raise", index |-> 0]
        ELSE IF str_isdigit(choice)
                /\ 1 <= str_to_int(choice) /\ str_to_int(choice) <= num_results
        THEN [kind |-> "index", index |-> str_to_int(choice) - 1]
        ELSE [kind |-> "again", index |-> 0]

\* str(e) of the exceptions perform_search raises
ExceptionText(e) ==
    CASE e = "MissingArgumentError:type" -> "Please specify either --movies or --series to search."
      [] e = "MissingArgumentError:id" -> "Please specify either --id or --name to search."
      [] e = "InvalidTMDbIDError" -> "TMDb ID must be a positive integer."
      [] e = "NoSuitableResultError" -> "No suitable result selected."
      [] e = "ValueError" -> "TMDb API call failed"
      [] e = "ValueError:int" -> "invalid literal for int() with base 10"
      [] OTHER -> e

\* the class of an exception
ExceptionClass(e) ==
    IF e \in {"MissingArgumentError:type", "MissingArgumentError:id"}
    THEN "MissingArgumentError"
    ELSE IF e = "ValueError:int" THEN "ValueError" ELSE e

\* the wrapper of handle_errors: the exceptions it catches and what it prints
handle_errors(e) ==
    IF ExceptionClass(e) \in {"MissingArgumentError", "InvalidTMDbIDError",
                              "NoSuitableResultError", "ValueError"}
    THEN [caught |-> TRUE, message |-> "Error: " \o ExceptionText(e)]
    ELSE [caught |-> FALSE, message |-> ""]

\* --id values: not given, empty, blank, digits, digits in blanks, not digits
IdValues == {Null, Str(""), Str("  "), Str("603"), Str(" 603 "), Str("60x")}

MainArgs ==
    [movies : BOOLEAN, series : BOOLEAN, id : IdValues, name : {Null, Str("matrix")}]

\* what the TMDb search by name may answer: each result a non-empty
\* dictionary ("entry") or an empty one ("empty")
SearchResults ==
    {<<>>, <<"entry">>, <<"empty">>, <<"entry", "entry">>, <<"entry", "empty">>}

\* what may be typed at the prompt
Answers == {"none", " None ", "1", "2", "3", "0", "x", "", SuperscriptTwo}

InitMain ==
    /\ trackers \in {SubSeq(ts, 1, MainTrackers) : ts \in TrackerLists}
    /\ search_query \in DriverQueries
    /\ output_json \in BOOLEAN
    /\ pc = "idle"
    /\ idx = 1
    /\ failed_sites = EmptyDict
    /\ successful_sites = <<>>
    /\ collected_data = <<>>
    /\ missing_media = EmptyDict
    /\ headers = ""
    /\ events = <<>>
    /\ received = EmptyDict
    /\ files = EmptyDict
    /\ exception = "none"
    /\ no_success = FALSE
    /\ HarnessIdle
    /\ SetupIdle
    /\ args \in MainArgs
    /\ m_pc = "start"
    /\ m_results = <<>>
    /\ m_selected = "none"
    /\ m_answers = <<>>
    /\ m_error = "none"
    /\ m_message = ""

\* search_type = "movie" if args.movies else "tv" if args.series else None
search_type == IF args.movies THEN "movie" ELSE IF args.series THEN "tv" ELSE "None"

\* requests.get of fetch_details
TmdbEvent(endpoint) ==
    [ev |-> "tmdb", tracker |-> "TMDb", url |-> endpoint, authorization |-> ""]

driver_rest == <<trackers, search_query, output_json, idx, failed_sites,
                 successful_sites, collected_data, missing_media, headers,
                 received, files, exception, no_success>>

\* an exception leaves perform_search and reaches the wrapper
MainRaises(e) ==
    /\ m_error' = e
    /\ m_pc' = IF handle_errors(e).caught THEN "handled" ELSE "escaped"
    /\ m_message' = handle_errors(e).message

MainGoes(to) ==
    /\ m_pc' = to
    /\ UNCHANGED <<m_error, m_message>>

\* lines 52-58
PerformSearchNoType ==
    /\ m_pc = "start"
    /\ search_type = "None"
    /\ MainRaises("MissingArgumentError:type")
    /\ UNCHANGED <<args, m_results, m_selected, m_answers, pc, events,
                   driver_rest, harness_vars, setup_vars>>

\* lines 63-68
PerformSearchInvalidId ==
    /\ m_pc = "start"
    /\ search_type /= "None"
    /\ Truthy(args.id)
    /\ ~str_isdigit(str_strip(args.id.s))
    /\ MainRaises("InvalidTMDbIDError")
    /\ UNCHANGED <<args, m_results, m_selected, m_answers, pc, events,
                   driver_rest, harness_vars, setup_vars>>

\* lines 63-70: the details are fetched by id, or the request fails
PerformSearchById ==
    /\ m_pc = "start"
    /\ search_type /= "None"
    /\ Truthy(args.id)
    /\ str_isdigit(str_strip(args.id.s))
    /\ events' = Append(events, TmdbEvent(search_type \o "/" \o str_strip(args.id.s)))
    /\ \/ MainGoes("details")
       \/ MainRaises("ValueError")
    /\ UNCHANGED <<args, m_results, m_selected, m_answers, pc, driver_rest, harness_vars, setup_vars>>

\* lines 72-74: the search by name; it fails, finds nothing, or has results
PerformSearchByName ==
    /\ m_pc = "start"
    /\ search_type /= "None"
    /\ ~Truthy(args.id)
    /\ Truthy(args.name)
    /\ events' = Append(events, TmdbEvent("search/" \o search_type))
    /\ \/ MainRaises("ValueError") /\ UNCHANGED m_results
       \/ \E results \in SearchResults :
            /\ m_results' = results
            /\ IF results = <<>> THEN MainRaises("NoResultsFoundError")
               ELSE MainGoes("select")
    /\ UNCHANGED <<args, m_selected, m_answers, pc, driver_rest, harness_vars, setup_vars>>

\* lines 83-85
PerformSearchNoIdNoName ==
    /\ m_pc = "start"
    /\ search_type /= "None"
    /\ ~Truthy(args.id)
    /\ ~Truthy(args.name)
    /\ MainRaises("MissingArgumentError:id")
    /\ UNCHANGED <<args, m_results, m_selected, m_answers, pc, events,
                   driver_rest, harness_vars, setup_vars>>

\* select_tmdb_result, lines 104-109: the only result, without a prompt
SelectOnlyResult ==
    /\ m_pc = "select"
    /\ Len(m_results) = 1
    /\ m_selected' = m_results[1]
    /\ MainGoes("selected")
    /\ UNCHANGED <<args, m_results, m_answers, pc, events, driver_rest, harness_vars, setup_vars>>

\* get_user_choice, lines 69-88: one line is typed at the prompt
PromptInvalid ==
    \E answer \in Answers :
        /\ m_pc = "select"
        /\ Len(m_results) > 1
        /\ Len(m_answers) < MaxAnswers
        /\ get_user_choice(answer, Len(m_results)).kind = "again"
        /\ m_answers' = Append(m_answers, answer)
        /\ MainGoes("select")
        /\ UNCHANGED <<args, m_results, m_selected, pc, events, driver_rest, harness_vars, setup_vars>>

\* a variant of the 'none' branch that goes on with the first result
PromptNoneTakesFirst ==
    \E answer \in Answers :
        /\ m_pc = "select"
        /\ Len(m_results) > 1
        /\ Len(m_answers) < MaxAnswers
        /\ get_user_choice(answer, Len(m_results)).kind = "none"
        /\ m_answers' = Append(m_answers, answer)
        /\ m_selected' = m_results[1]
        /\ MainGoes("selected")
        /\ UNCHANGED <<args, m_results, pc, events, driver_rest, harness_vars, setup_vars>>

\* lines 76-78, 115-127: 'none' is typed; sys.exit(0) ends the process
PromptNone ==
    \E answer \in Answers :
        /\ m_pc = "select"
        /\ Len(m_results) > 1
        /\ Len(m_answers) < MaxAnswers
        /\ get_user_choice(answer, Len(m_results)).kind = "none"
        /\ m_answers' = Append(m_answers, answer)
        /\ m_error' = "SystemExit"
        /\ m_pc' = "exited"
        /\ UNCHANGED <<args, m_results, m_selected, m_message, pc, events,
                       driver_rest, harness_vars, setup_vars>>

\* lines 81-82, 135-150: int(choice) raises ValueError, which
\* select_tmdb_result logs and raises again
PromptRaises ==
    \E answer \in Answers :
        /\ m_pc = "select"
        /\ Len(m_results) > 1
        /\ Len(m_answers) < MaxAnswers
        /\ get_user_choice(answer, Len(m_results)).kind = "raise"
        /\ m_answers' = Append(m_answers, answer)
        /\ MainRaises("ValueError:int")
        /\ UNCHANGED <<args, m_results, m_selected, pc, events, driver_rest,
                       harness_vars, setup_vars>>

\* lines 81-85, 129-133: a valid index is typed
PromptIndex ==
    \E answer \in Answers :
        /\ m_pc = "select"
        /\ Len(m_results) > 1
        /\ Len(m_answers) < MaxAnswers
        /\ get_user_choice(answer, Len(m_results)).kind = "index"
        /\ m_answers' = Append(m_answers, answer)
        /\ m_selected' = m_results[get_user_choice(answer, Len(m_results)).index + 1]
        /\ MainGoes("selected")
        /\ UNCHANGED <<args, m_results, pc, events, driver_rest, harness_vars, setup_vars>>

\* lines 77-82: the details of the selected result are fetched, or the
\* result is an empty dictionary
PerformSearchSelected ==
    /\ m_pc = "selected"
    /\ IF m_selected = "empty"
       THEN MainRaises("NoSuitableResultError") /\ UNCHANGED events
       ELSE /\ events' = Append(events, TmdbEvent(search_type \o "/603"))
            /\ \/ MainGoes("details")
               \/ MainRaises("ValueError")
    /\ UNCHANGED <<args, m_results, m_selected, m_answers, pc, driver_rest, harness_vars, setup_vars>>

\* lines 88-91: the details are shown and the trackers are queried; the
\* function called is the driver, query_additional_apis
QueryTrackerApi ==
    /\ m_pc = "details"
    /\ pc = "idle"
    /\ pc' = "loop"
    /\ MainGoes("trackers")
    /\ UNCHANGED <<args, m_results, m_selected, m_answers, events, driver_rest,
                   harness_vars, setup_vars>>

\* the driver returns and so does perform_search
PerformSearchReturns ==
    /\ m_pc = "trackers"
    /\ pc = "done"
    /\ MainGoes("completed")
    /\ UNCHANGED <<args, m_results, m_selected, m_answers, driver_vars, harness_vars, setup_vars>>

\* an exception leaves the driver and perform_search
PerformSearchPropagates ==
    /\ m_pc = "trackers"
    /\ pc = "raised"
    /\ MainRaises(exception)
    /\ UNCHANGED <<args, m_results, m_selected, m_answers, driver_vars, harness_vars, setup_vars>>

NextMain ==
    \/ PerformSearchNoType
    \/ PerformSearchInvalidId
    \/ PerformSearchById
    \/ PerformSearchByName
    \/ PerformSearchNoIdNoName
    \/ SelectOnlyResult
    \/ PromptInvalid
    \/ PromptNone
    \/ PromptRaises
    \/ PromptIndex
    \/ PerformSearchSelected
    \/ QueryTrackerApi
    \/ PerformSearchReturns
    \/ PerformSearchPropagates
    \/ Next

SpecMain == InitMain /\ [][NextMain]_vars

(***************************************************************************)
(* main.py: setup, over validation.setup_environment,                      *)
(* create_env.create_env_file and validation.validate_env_vars             *)
(***************************************************************************)
\* entries of TRACKER_CONFIG the environment is modelled for
EnvTrackers == 2

\* os.getenv of the required variables: unset, empty or set; API_KEYS and
\* URLS of the trackers, entry by entry ("" is an unset or empty value)
Environments ==
    [TMDB_API_KEY : {Null, Str("tmdb-key")},
     TMDB_URL : {Null, Str(""), Str("https://tmdb")},
     trackers : {SubSeq(ts, 1, EnvTrackers) : ts \in TrackerLists}]

\* missing_required = [key for key in required_keys if not os.getenv(key)]
missing_required(e) ==
    (IF Truthy(e.TMDB_API_KEY) THEN <<>> ELSE <<"TMDB_API_KEY">>)
    \o (IF Truthy(e.TMDB_URL) THEN <<>> ELSE <<"TMDB_URL">>)

RECURSIVE valid_trackers_either(_, _)
\* a variant of the loop that asks for the API key or the URL
valid_trackers_either(k, e) ==
    IF k > Len(e.trackers) THEN <<>>
    ELSE (IF e.trackers[k].api_key /= "" \/ e.trackers[k].url /= ""
          THEN <<e.trackers[k]>> ELSE <<>>) \o valid_trackers_either(k + 1, e)

RECURSIVE valid_trackers(_, _)
\* for tracker in TRACKER_CONFIG: if api_key and url: valid_trackers.append
valid_trackers(k, e) ==
    IF k > Len(e.trackers) THEN <<>>
    ELSE (IF e.trackers[k].api_key /= "" /\ e.trackers[k].url /= ""
          THEN <<e.trackers[k]>> ELSE <<>>) \o valid_trackers(k + 1, e)

\* validate_env_vars(logger): what it returns or raises
validate_env_vars(e) ==
    IF missing_required(e) /= <<>> THEN Raised("MissingEnvironmentVariableError")
    ELSE IF valid_trackers(1, e) = <<>> THEN Raised("NoValidTrackersError")
    ELSE Returned([required |-> <<e.TMDB_API_KEY.s, e.TMDB_URL.s>>,
                   trackers |-> valid_trackers(1, e)])

\* the arguments of the runs that start at setup
SetupArgs ==
    [movies : BOOLEAN, series : {FALSE}, id : {Null, Str("603"), Str("60x")},
     name : {Null, Str("matrix")}]

InitSetup ==
    /\ trackers = <<>>
    /\ search_query \in {NoQuery, Str("a")}
    /\ output_json \in BOOLEAN
    /\ pc = "idle"
    /\ idx = 1
    /\ failed_sites = EmptyDict
    /\ successful_sites = <<>>
    /\ collected_data = <<>>
    /\ missing_media = EmptyDict
    /\ headers = ""
    /\ events = <<>>
    /\ received = EmptyDict
    /\ files = EmptyDict
    /\ exception = "none"
    /\ no_success = FALSE
    /\ HarnessIdle
    /\ args \in SetupArgs
    /\ m_pc = "setup"
    /\ m_results = <<>>
    /\ m_selected = "none"
    /\ m_answers = <<>>
    /\ m_error = "none"
    /\ m_message = ""
    /\ env \in Environments
    /\ env_file \in {"absent", "user"}
    /\ overwrite \in BOOLEAN

\* what a step of setup leaves alone
SetupFrame ==
    UNCHANGED <<args, m_results, m_selected, m_answers, search_query, output_json,
                pc, idx, failed_sites, successful_sites, collected_data,
                missing_media, headers, events, received, files, exception,
                no_success, harness_vars, env, overwrite>>

\* create_env_file, lines 60-68: the file exists and is not to be overwritten
CreateEnvFileSkips ==
    /\ m_pc = "setup"
    /\ env_file /= "absent"
    /\ ~overwrite
    /\ MainGoes("validate")
    /\ UNCHANGED <<trackers, env_file>>
    /\ SetupFrame

\* a variant of lines 70-79 without sys.exit(0): the function returns
CreateEnvFileWritesAndReturns ==
    /\ m_pc = "setup"
    /\ env_file = "absent" \/ overwrite
    /\ env_file' = "preset"
    /\ MainGoes("validate")
    /\ UNCHANGED trackers
    /\ SetupFrame

\* create_env_file, lines 70-79: the preset content is written and
\* sys.exit(0) ends the process
CreateEnvFileWrites ==
    /\ m_pc = "setup"
    /\ env_file = "absent" \/ overwrite
    /\ env_file' = "preset"
    /\ m_error' = "SystemExit"
    /\ m_pc' = "exited"
    /\ UNCHANGED <<trackers, m_message>>
    /\ SetupFrame

\* create_env_file, lines 70-72, 81-88: mkdir, open or write fails; the
\* file is as it was, or cut short when the write failed; the
\* EnvFileCreationError passes setup_environment and handle_errors
CreateEnvFileFails ==
    /\ m_pc = "setup"
    /\ env_file = "absent" \/ overwrite
    /\ env_file' \in {env_file, "partial"}
    /\ MainRaises("EnvFileCreationError")
    /\ UNCHANGED trackers
    /\ SetupFrame

\* validate_env_vars raises; setup_environment raises it again
ValidateEnvVarsRaises ==
    /\ m_pc = "validate"
    /\ validate_env_vars(env).raised /= "none"
    /\ MainRaises(validate_env_vars(env).raised)
    /\ UNCHANGED <<trackers, env_file>>
    /\ SetupFrame

\* validate_env_vars returns; setup hands env_vars["trackers"] to main,
\* which calls perform_search
ValidateEnvVarsReturns ==
    /\ m_pc = "validate"
    /\ validate_env_vars(env).raised = "none"
    /\ trackers' = validate_env_vars(env).value.trackers
    /\ MainGoes("start")
    /\ UNCHANGED env_file
    /\ SetupFrame

\* main() from its first line: the setup, perform_search, and the driver on
\* the trackers the setup returned
NextSetup ==
    \/ CreateEnvFileSkips
    \/ CreateEnvFileWrites
    \/ CreateEnvFileFails
    \/ ValidateEnvVarsRaises
    \/ ValidateEnvVarsReturns
    \/ PerformSearchNoType
    \/ PerformSearchInvalidId
    \/ PerformSearchById
    \/ PerformSearchByName
    \/ PerformSearchNoIdNoName
    \/ SelectOnlyResult
    \/ PromptInvalid
    \/ PromptNone
    \/ PromptRaises
    \/ PromptIndex
    \/ PerformSearchSelected
    \/ QueryTrackerApi
    \/ PerformSearchReturns
    \/ PerformSearchPropagates
    \/ TrackerRequestFailed
    \/ TrackerInvalidJson
    \/ TrackerNullBody
    \/ TrackerBodyNotObject
    \/ TrackerNoData
    \/ TrackerFilterRaises
    \/ TrackerFilteredEmpty
    \/ TrackerCheckRaises
    \/ TrackerSuccess
    \/ ExportJson
    \/ FailedTable
    \/ MissingTable
    \/ FinalMessage

SpecSetup == InitSetup /\ [][NextSetup]_vars

(***************************************************************************)
(* Properties of the run                                                   *)
(***************************************************************************)
\* the tracker has both an API key and a URL
HasCredentials(t) == t.api_key /= "" /\ t.url /= ""

\* the for loop has gone through every tracker
LoopOver == pc /= "idle" /\ idx > Len(trackers)

\* the function has returned or has been left by an exception
RunEnded == pc \in {"done", "raised"}

Succeeded(name) == name \in Range(successful_sites)

Failed(name) == name \in DOMAIN failed_sites

\* the HTTP requests sent to a tracker
RequestsTo(name) ==
    {k \in 1..Len(events) : events[k].ev = "request" /\ events[k].tracker = name}

\* the text of the exception a transport failure raises
ErrorText(status) ==
    IF status = "timeout" THEN "Read timed out." ELSE "500 Server Error"

TransportFailure(name) ==
    name \in DOMAIN received /\ received[name].status \in {"timeout", "http500"}

\* C1: once the loop has gone through all trackers, every tracker with an
\* API key and a URL is in successful_sites or a key of failed_sites, and
\* not in both.
C1_ExactlyOneOutcome ==
    LoopOver =>
        \A k \in 1..Len(trackers) :
            HasCredentials(trackers[k]) =>
                (Succeeded(trackers[k].name) /= Failed(trackers[k].name))

\* C2: a tracker whose request failed at transport level is a key of
\* failed_sites with the error text as its reason and is not in
\* successful_sites; a run over one tracker without credentials, one
\* answering 500 and one answering listings ends the loop with two
\* failures and one success.
C2_TransportFailureRecorded ==
    /\ \A k \in 1..Len(trackers) :
        (k < idx /\ TransportFailure(trackers[k].name)) =>
            /\ Failed(trackers[k].name)
            /\ failed_sites[trackers[k].name] = ErrorText(received[trackers[k].name].status)
            /\ ~Succeeded(trackers[k].name)
    /\ ( /\ LoopOver
         /\ Len(trackers) = 3
         /\ trackers[1].api_key = ""
         /\ trackers[1].url = ""
         /\ TransportFailure(trackers[2].name)
         /\ received[trackers[2].name].status = "http500"
         /\ Succeeded(trackers[3].name) )
       => (Cardinality(DOMAIN failed_sites) = 2 /\ Len(successful_sites) = 1)

\* C3: a tracker whose API key or URL is missing or empty is recorded in
\* failed_sites with a missing-credentials reason, and no HTTP request is
\* sent to it.
C3_MissingCredentialsRecorded ==
    \A k \in 1..Len(trackers) :
        (pc /= "idle" /\ k < idx /\ ~HasCredentials(trackers[k])) =>
            /\ Failed(trackers[k].name)
            /\ str_contains("Missing", failed_sites[trackers[k].name])
            /\ RequestsTo(trackers[k].name) = {}

\* C4: whatever a tracker answers, the trackers after it are still queried:
\* when the run has ended, a request has gone to every tracker that has
\* credentials.
C4_LaterTrackersQueried ==
    RunEnded =>
        \A k \in 1..Len(trackers) :
            HasCredentials(trackers[k]) => RequestsTo(trackers[k].name) /= {}

\* C5: a run whose loop ends with successful_sites empty ends with "No
\* successful queries." printed and with no exception leaving the function.
C5_NoSuccessIsReported ==
    (RunEnded /\ LoopOver /\ successful_sites = <<>>) =>
        (pc = "done" /\ no_success /\ exception = "none")

\* the entry of collected_data for a tracker
CollectedFor(name) == CHOOSE e \in Range(collected_data) : e[3] = name

RECURSIVE str_join(_, _)
\* sep.join(parts)
str_join(parts, sep) ==
    IF Len(parts) = 0 THEN ""
    ELSE IF Len(parts) = 1 THEN parts[1]
    ELSE parts[1] \o sep \o str_join(Tail(parts), sep)

\* the query with the blanks around each of its terms removed
TrimmedQuery(q) ==
    LET parts == str_split(q, "^")
    IN  str_join([k \in 1..Len(parts) |-> str_strip(parts[k])], "^")

\* the listings of a tracker's answer the driver kept under the query
KeptByDriver(name) ==
    IF Succeeded(name) THEN CollectedFor(name)[1].data ELSE <<>>

\* C7: the driver's filter trims the blanks around each term: for a tracker
\* that answered with listings, the listings kept under the query are those
\* kept under the query without the blanks.
C7_DriverFilterTrimsTerms ==
    \A k \in 1..Len(trackers) :
        LET name == trackers[k].name
        IN  ( /\ pc /= "idle"
              /\ k < idx
              /\ Truthy(search_query)
              /\ name \in DOMAIN received
              /\ received[name].status = "ok"
              /\ HasListings(received[name].body)
              /\ (Succeeded(name) \/ Failed(name)) )
            => KeptByDriver(name) =
                 api_filter_results(received[name].body,
                                    TrimmedQuery(search_query.s)).value

\* the six categories of the taxonomy
TAXONOMY == {"REMUX", "WEB-DL", "Encode", "Full Disc", "WEBRip", "HDTV"}

\* C10: for a tracker whose listings were checked, the media types listed
\* as missing are the complement of the found ones within the six-category
\* taxonomy: disjoint from them, together with them the whole taxonomy,
\* each listed once, and no entry when nothing is missing.
C10_MissingIsComplementOfFound ==
    \A name \in Range(successful_sites) :
        LET found == api_found_media_types(CollectedFor(name)[1])
            missing == IF name \in DOMAIN missing_media
                       THEN missing_media[name] ELSE <<>>
        IN  /\ Range(missing) \cap found = {}
            /\ Range(missing) \cup found = TAXONOMY
            /\ Cardinality(Range(missing)) = Len(missing)
            /\ name \in DOMAIN missing_media => missing /= <<>>

(***************************************************************************)
(* Properties of the filters                                               *)
(***************************************************************************)
\* the name a listing is matched by: "" without 'attributes' or 'name'
ClaimedName(item) ==
    IF item.has_attributes /\ item.name.k = "str" THEN item.name.s ELSE ""

\* every term of the query, trimmed and lower-cased, is in the lower-cased name
ClaimedMatch(item, q) ==
    LET parts == str_split(q, "^")
    IN  \A k \in 1..Len(parts) :
            str_contains(str_lower(str_strip(parts[k])), str_lower(ClaimedName(item)))

NullNamed(item) == item.has_attributes /\ item.name.k = "null"

NamesAreStrings(data) == \A k \in 1..Len(data.data) : ~NullNamed(data.data[k])

ProcessingFilterCalled ==
    h_fn = "processing.filter_results" /\ h_stage \in {"once", "twice"}

\* the listings of the payload that match the query, in the payload's order
ClaimedResult(data, q) ==
    LET Match(item) == ClaimedMatch(item, q) IN SelectSeq(data.data, Match)

C8_FilterIdempotent == h_stage = "twice" => h_ret2 = h_ret

\* C8 witness: a filter was applied twice and had kept some but not all of
\* the listings.
C8_Witness ==
    /\ h_stage = "twice"
    /\ h_ret.value /= <<>>
    /\ Len(h_ret.value) < Len(h_data.data)

\* what C9 says of the driver: without a query (None or "") no tracker's
\* listings are filtered and none is failed for the query
DriverDoesNotFilter ==
    (pc /= "idle" /\ ~Truthy(search_query)) =>
        /\ \A k \in 1..Len(collected_data) :
            collected_data[k][1] = received[collected_data[k][3]].body
        /\ \A name \in DOMAIN failed_sites :
            ~str_contains("No results matching query", failed_sites[name])

\* what C9 says of a payload without 'data': the empty list, no exception
NoDataGivesEmptyList ==
    (ProcessingFilterCalled /\ ~h_data.has_data) => h_ret = Returned(<<>>)

NamedWith(item, word) ==
    /\ item.has_attributes
    /\ item.name.k = "str"
    /\ str_contains(str_lower(word), str_lower(item.name.s))

\* C11: a category counts as found when a listing's name contains it, even
\* if no listing carries a type: a checked result set with a listing whose
\* name contains REMUX never has REMUX reported missing.
C11_NameMarksCategoryFound ==
    \A name \in Range(successful_sites) :
        LET data == CollectedFor(name)[1].data
        IN  (\E k \in 1..Len(data) : NamedWith(data[k], "REMUX"))
                => ~(name \in DOMAIN missing_media
                        /\ "REMUX" \in Range(missing_media[name]))

\* C12: when a non-empty query is active for the run, no tracker is
\* classified: missing_media stays empty throughout the run.
C12_NoClassificationUnderQuery ==
    (pc /= "idle" /\ Truthy(search_query)) => missing_media = EmptyDict

\* the position of a tracker in the trackers list
Position(name) == CHOOSE k \in 1..Len(trackers) : trackers[k].name = name

\* C13: the sleep follows every request of a tracker whose turn of the loop
\* is over, whatever the outcome, so no two requests are issued without a
\* sleep between them.
C13_DelayAfterEveryRequest ==
    \A k \in 1..Len(events) :
        (events[k].ev = "request" /\ Position(events[k].tracker) < idx)
            => (k < Len(events) /\ events[k + 1].ev = "sleep")

\* C14: when export is enabled, after the run the files written are exactly
\* one per successful tracker, named <tracker_code>_TMDb_<tmdb_id>.json, and
\* none for a tracker outside successful_sites.
C14_OneFilePerSuccessfulTracker ==
    (RunEnded /\ LoopOver /\ output_json) =>
        DOMAIN files =
            {ExportFileName(trackers[k].code) :
                k \in {j \in 1..Len(trackers) : Succeeded(trackers[j].name)}}

\* C15: the payload handed to export for a tracker is the response as it
\* was received, before filtering.
C15_ExportedPayloadIsRaw ==
    (pc /= "idle" /\ output_json) =>
        \A k \in 1..Len(collected_data) :
            collected_data[k][1] = received[collected_data[k][3]].body

\* the body is an object with a 'data' list
HasEnvelope(body) == body.kind = "object" /\ body.has_data

\* C16: a response that parses as JSON but is no object with a 'data' list
\* is recorded as failed with the invalid-response reason, and not as
\* successful.
C16_WrongEnvelopeIsInvalidResponse ==
    \A name \in DOMAIN received :
        (received[name].status = "ok" /\ ~HasEnvelope(received[name].body))
            => /\ Failed(name)
               /\ failed_sites[name] = "Invalid JSON response"
               /\ ~Succeeded(name)

\* C17: in any run at most one HTTP request is issued to each tracker; a
\* failed request is not issued again.
C17_AtMostOneRequestPerTracker ==
    \A k \in 1..Len(trackers) : Cardinality(RequestsTo(trackers[k].name)) <= 1

\* C17 witness: the run is over, a tracker's request failed at transport
\* level and was its only one, and a later tracker was queried after it.
C17_Witness ==
    /\ RunEnded
    /\ \E k \in 1..Len(trackers) :
        /\ TransportFailure(trackers[k].name)
        /\ Cardinality(RequestsTo(trackers[k].name)) = 1
        /\ \E j \in (k + 1)..Len(trackers) : RequestsTo(trackers[j].name) /= {}

\* the trackers the requests went to, in the order they were issued
RequestOrder ==
    LET IsRequest(e) == e.ev = "request"
        reqs == SelectSeq(events, IsRequest)
    IN  [k \in 1..Len(reqs) |-> Position(reqs[k].tracker)]

\* a sequence of positions that only goes up
Increasing(positions) ==
    \A k \in 1..(Len(positions) - 1) : positions[k] < positions[k + 1]

\* C20: requests are issued in the order of the trackers list, and at every
\* point of the run successful_sites is a subsequence of the configured
\* names, in that order.
C20_ConfigurationOrder ==
    pc /= "idle" =>
        /\ Increasing(RequestOrder)
        /\ Increasing([k \in 1..Len(successful_sites) |-> Position(successful_sites[k])])

\* C20 witness: the first and the third tracker succeeded, the second was
\* queried and did not.
C20_Witness ==
    /\ Len(trackers) >= 3
    /\ successful_sites = <<trackers[1].name, trackers[3].name>>
    /\ RequestOrder = <<1, 2, 3>>

(***************************************************************************)
(* Properties of perform_search                                            *)
(***************************************************************************)
\* the last line typed at the prompt was 'none'
AnsweredNone ==
    /\ m_answers /= <<>>
    /\ get_user_choice(m_answers[Len(m_answers)], Len(m_results)).kind = "none"

\* the TMDb requests issued so far
TmdbRequests == {k \in 1..Len(events) : events[k].ev = "tmdb"}

\* the tracker requests issued so far
TrackerRequests == {k \in 1..Len(events) : events[k].ev = "request"}

\* C18: once 'none' is answered at the prompt the run is over before the
\* tracker loop starts: no tracker request and no TMDb request beyond the
\* search that led to the prompt is ever issued.
C18_NoneAbortsBeforeTrackers ==
    AnsweredNone =>
        /\ m_pc \in {"exited", "handled", "escaped"}
        /\ pc = "idle"
        /\ TrackerRequests = {}
        /\ Cardinality(TmdbRequests) = 1

\* C18 witness: after an invalid answer 'none' was typed and the process
\* exited, with a tracker that has both its API key and its URL waiting.
C18_Witness ==
    /\ AnsweredNone
    /\ Len(m_answers) = 2
    /\ m_pc = "exited"
    /\ HasCredentials(trackers[1])

\* neither --movies nor --series
NoSearchType == ~args.movies /\ ~args.series

\* --id given with a value that is not all digits after stripping
IdNotDigits == args.id.k = "str" /\ ~str_isdigit(str_strip(args.id.s))

\* perform_search raised the exception before any request and the wrapper
\* printed its message
RejectedWith(class) ==
    /\ ExceptionClass(m_error) = class
    /\ m_pc = "handled"
    /\ m_message /= ""
    /\ events = <<>>
    /\ pc = "idle"

\* C19: without --movies and --series perform_search raises
\* MissingArgumentError, and with a search type and an --id value that is
\* not all digits after stripping it raises InvalidTMDbIDError (or, the id
\* being empty and no name given, MissingArgumentError), in every case
\* before any TMDb or tracker request; handle_errors prints the message
\* and no exception escapes.
C19_InputErrorsRejectedBeforeRequests ==
    m_pc \notin {"idle", "start"} =>
        /\ NoSearchType => RejectedWith("MissingArgumentError")
        /\ (~NoSearchType /\ IdNotDigits) =>
                \/ RejectedWith("InvalidTMDbIDError")
                \/ RejectedWith("MissingArgumentError")

(***************************************************************************)
(* Properties of the type tokens                                           *)
(***************************************************************************)
\* the lower-cased type tokens of the listings checked for a tracker
TypeTokens(name) ==
    LET listings == CollectedFor(name)[1].data
    IN  {str_lower(listings[k].type.s) :
            k \in {j \in 1..Len(listings) : listings[j].type.k = "str"}}

\* the token equals one of the category's synonyms or contains one
TokenMarks(token, category) ==
    \E synonym \in SYNONYMS(category) :
        token = synonym \/ str_contains(synonym, token)

\* C21: a type token marks a category as found when it equals one of the
\* category's synonyms or contains one as a substring: the category of such
\* a token is not listed as missing for the tracker, whatever other tokens
\* the tracker's listings carry.
C21_TypeTokenMarksCategory ==
    \A name \in Range(successful_sites) :
        \A category \in TAXONOMY :
            (\E token \in TypeTokens(name) : TokenMarks(token, category)) =>
                ~(name \in DOMAIN missing_media
                    /\ category \in Range(missing_media[name]))

(***************************************************************************)
(* Properties of the shared headers                                        *)
(***************************************************************************)
\* the requests put on the wire, in the order they were sent
SentRequests == SelectSeq(events, LAMBDA e : e.ev = "request")

\* C23: every request sent to a tracker goes to that tracker's URL and
\* carries the bearer token made of that same tracker's API key, although
\* the headers dictionary is shared by all turns of the loop.
C23_RequestCarriesOwnToken ==
    \A k \in 1..Len(SentRequests) :
        LET t == trackers[Position(SentRequests[k].tracker)]
        IN  /\ SentRequests[k].url = t.url
            /\ SentRequests[k].authorization = "Bearer " \o t.api_key

\* C23 witness: two trackers with different API keys were sent a request,
\* and a tracker without an API key sits between them in the list.
C23_Witness ==
    /\ Len(trackers) = 3
    /\ trackers[2].api_key = ""
    /\ Len(SentRequests) = 2
    /\ SentRequests[1].tracker = trackers[1].name
    /\ SentRequests[2].tracker = trackers[3].name
    /\ SentRequests[1].authorization /= SentRequests[2].authorization

(***************************************************************************)
(* Properties of the per-tracker records                                   *)
(***************************************************************************)
\* the body a tracker answered with, once its turn has ended normally
Answered(k) ==
    /\ k < idx
    /\ trackers[k].name \in DOMAIN received
    /\ received[trackers[k].name].status = "ok"
    /\ received[trackers[k].name].body.kind = "object"

\* some listing of the body matches the query
SomeListingMatches(body, q) ==
    \E k \in 1..Len(body.data) : ClaimedMatch(body.data[k], q)

QueryReason == "No results matching query '" \o search_query.s \o "'"

C25_MissingOnlyForSuccessful ==
    \A name \in DOMAIN missing_media : Succeeded(name)

\* C25 witness: the loop is over, a tracker has missing media types listed,
\* and the run also saw a tracker skipped for its key and one without data.
C25_Witness ==
    /\ LoopOver
    /\ DOMAIN missing_media /= {}
    /\ \E name \in DOMAIN failed_sites : failed_sites[name] = "No matching results"
    /\ \E name \in DOMAIN failed_sites : failed_sites[name] = "Missing API key"

(***************************************************************************)
(* Properties of the error handling in processing                          *)
(***************************************************************************)
\* the payload is no object or one of its listings is none
NotListings(data) ==
    \/ data.kind /= "object"
    \/ \E k \in 1..Len(data.data) : data.data[k] = StringItem

\* a name that filter_results cannot lower-case: null or not a string
BadName(data) ==
    \E k \in 1..Len(data.data) :
        data.data[k].has_attributes /\ data.data[k].name.k \in {"null", "number"}

\* a type that check_media_types cannot lower-case: null or not a string
BadType(data) ==
    \E k \in 1..Len(data.data) :
        data.data[k].has_attributes /\ data.data[k].type.k \in {"null", "number"}

ProcessingCheckCalled ==
    h_fn = "processing.check_media_types" /\ h_stage = "once"

\* C22: processing.filter_results and processing.check_media_types return
\* for every payload; filter_results returns the empty list when the payload
\* is no object, a listing is none or a name is null or not a string, and
\* check_media_types returns the mapping exactly as it was passed in when
\* the payload is no object, a listing is none or a type is null or not a
\* string.
C22_StructuralErrorsContained ==
    /\ h_stage /= "input" => h_ret.raised = "none"
    /\ (ProcessingFilterCalled /\ (NotListings(h_data) \/ BadName(h_data))) =>
            h_ret.value = <<>>
    /\ (ProcessingCheckCalled /\ (NotListings(h_data) \/ BadType(h_data))) =>
            h_ret.value = h_missing

\* C22 witness: check_media_types was called with a mapping that has an
\* entry, on an object whose first listing has a type token and whose second
\* listing is a string.
C22_Witness ==
    /\ ProcessingCheckCalled
    /\ h_missing /= EmptyDict
    /\ h_data.kind = "object"
    /\ Len(h_data.data) = 2
    /\ h_data.data[1].type.k = "str"
    /\ h_data.data[2] = StringItem

(***************************************************************************)
(* Properties of the prompt                                                *)
(***************************************************************************)
\* the line typed last, as get_user_choice reads it
LastChoice == str_lower(str_strip(m_answers[Len(m_answers)]))

\* the prompt has been left: it returned or an exception left it
PromptLeft == m_answers /= <<>> /\ m_pc /= "select"

\* C26: the prompt is left only by 'none' or by the index of one of the
\* results, which is then the result selected, and every other line typed
\* is followed by another prompt; no InvalidChoiceError is raised, and a
\* single result is selected without a prompt.
C26_PromptReturnsNoneOrIndex ==
    /\ PromptLeft =>
            \/ LastChoice = "none" /\ m_selected = "none"
            \/ \E i \in 1..Len(m_results) :
                    LastChoice = ToString(i) /\ m_selected = m_results[i]
    /\ ExceptionClass(m_error) /= "InvalidChoiceError"
    /\ (Len(m_results) = 1 /\ m_pc /= "select") =>
            m_answers = <<>> /\ m_selected = m_results[1]

(***************************************************************************)
(* Properties of the setup                                                 *)
(***************************************************************************)
\* the run has started and did not end inside create_env_file:
\* validate_env_vars was called and has returned or raised
ValidationDone ==
    /\ m_pc \notin {"idle", "setup", "validate"}
    /\ m_error /= "EnvFileCreationError"
    /\ ~(m_pc = "exited" /\ m_answers = <<>>)

RequiredSet ==
    /\ env.TMDB_API_KEY.k = "str" /\ env.TMDB_API_KEY.s /= ""
    /\ env.TMDB_URL.k = "str" /\ env.TMDB_URL.s /= ""

\* the entry of TRACKER_CONFIG has an API key and a URL
Qualifies(j) == env.trackers[j].api_key /= "" /\ env.trackers[j].url /= ""

\* the place in TRACKER_CONFIG of a tracker that was returned
ConfigPlace(k) ==
    CHOOSE j \in 1..Len(env.trackers) : env.trackers[j].code = trackers[k].code

\* C27: validate_env_vars raises MissingEnvironmentVariableError when
\* TMDB_API_KEY or TMDB_URL is unset, whatever the trackers; else
\* NoValidTrackersError when no entry of TRACKER_CONFIG has both an API key
\* and a URL; else it returns exactly the entries that have both, in the
\* order of TRACKER_CONFIG.  No tracker it returned is failed by the driver
\* for a missing API key.
C27_ValidatedTrackers ==
    /\ ValidationDone =>
            IF ~RequiredSet
            THEN m_error = "MissingEnvironmentVariableError" /\ trackers = <<>>
            ELSE IF \A j \in 1..Len(env.trackers) : ~Qualifies(j)
            THEN m_error = "NoValidTrackersError" /\ trackers = <<>>
            ELSE /\ m_error \notin {"MissingEnvironmentVariableError",
                                     "NoValidTrackersError"}
                 /\ \A k \in 1..Len(trackers) :
                        \E j \in 1..Len(env.trackers) :
                            Qualifies(j) /\ trackers[k] = env.trackers[j]
                 /\ \A j \in 1..Len(env.trackers) :
                        Qualifies(j) => env.trackers[j] \in Range(trackers)
                 /\ \A k \in 1..Len(trackers) - 1 :
                        ConfigPlace(k) < ConfigPlace(k + 1)
    /\ \A name \in DOMAIN failed_sites : failed_sites[name] /= "Missing API key"

\* C27 witness: the first entry has an API key and no URL, the second has
\* both; the second alone was returned and the driver has sent it a request.
C27_Witness ==
    /\ ValidationDone
    /\ Len(env.trackers) = 2
    /\ env.trackers[1].api_key /= ""
    /\ env.trackers[1].url = ""
    /\ trackers = <<env.trackers[2]>>
    /\ \E k \in 1..Len(events) :
            events[k].ev = "request" /\ events[k].tracker = trackers[1].name

\* the run went past create_env_file: it validated, searched or queried
PastCreateEnvFile ==
    \/ m_pc \notin {"setup", "exited", "escaped"}
    \/ m_pc = "exited" /\ m_answers /= <<>>
    \/ m_pc = "escaped" /\ m_error /= "EnvFileCreationError"

\* the process ended in create_env_file by sys.exit(0), with nothing done
ExitedInCreateEnvFile ==
    /\ m_pc = "exited"
    /\ m_error = "SystemExit"
    /\ m_answers = <<>>
    /\ trackers = <<>>
    /\ events = <<>>
    /\ pc = "idle"

\* C28 as stated: once create_env_file has been called, a file that was
\* there with overwrite false is as it was and the run went on; in every
\* other case the file holds the preset content and the process ended in
\* create_env_file, before validation, the TMDb lookup and any request.
C28_WritesThenExits_Always ==
    m_pc \notin {"idle", "setup"} =>
        IF env_file = "user" /\ ~overwrite
        THEN PastCreateEnvFile
        ELSE env_file = "preset" /\ ExitedInCreateEnvFile

\* C28 (amended): once create_env_file has been called, a file that was
\* there with overwrite false is as it was and the run went on; in every
\* other case either the file holds the preset content and the process
\* ended in create_env_file, or the file could not be written and
\* EnvFileCreationError was raised; either way the run did not reach
\* validation, the TMDb lookup or any request.
C28_WritesThenExits ==
    m_pc \notin {"idle", "setup"} =>
        IF env_file = "user" /\ ~overwrite
        THEN PastCreateEnvFile
        ELSE /\ ~PastCreateEnvFile
             /\ trackers = <<>>
             /\ events = <<>>
             /\ pc = "idle"
             /\ \/ env_file = "preset" /\ ExitedInCreateEnvFile
                \/ env_file /= "preset" /\ m_error = "EnvFileCreationError"

\* C28 witness: the file was there, overwrite was set, the preset content
\* was written and the process has ended, with a valid environment.
C28_Witness ==
    /\ overwrite
    /\ env_file = "preset"
    /\ ExitedInCreateEnvFile
    /\ RequiredSet
    /\ \E j \in 1..Len(env.trackers) : Qualifies(j)

====
